---- MODULE Spec2Model ----
(***************************************************************************)
(* A model of the continuous event streams of gocouch                      *)
(* (Database.GetChangesChan, Server.GetDBEventChan), of the one-shot calls *)
(* beside them (Database.GetAllChanges, Server.GetDBEvent) and of the      *)
(* transport they share (createConnection, connection.request).            *)
(*                                                                         *)
(* A URL or query string is a sequence of tokens: a key, a value, and the  *)
(* separators "?", "&", "=" and "/" are one token each, so that string     *)
(* concatenation is \o and the server's reading of the query string        *)
(* (ParseQuery) is a computation on what was really sent.                  *)
(***************************************************************************)
EXTENDS Integers, Sequences, FiniteSets, TLC

\* ------------------------------------------------------------------ bounds
\* Lines the server emits, over all open streams together.
MaxLines == 3

\* The channel calls (GetChangesChan, GetDBEventChan) of a run: two, so that
\* two streams are open side by side.
Streams == {1, 2}

\* ------------------------------------------------------- program constants
\* const continuous = "continuous", the feed style of the channel calls.
continuous == "continuous"

\* The request timeouts Connect may be given: none (0), or some (10 s).
Timeouts == {0, 10}

\* Option keys and values a caller passes; %v prints a string as itself.
OptKeys == {"feed", "since", "limit"}
FeedValues == {continuous, "longpoll", "normal"}
OptValues(k) == IF k = "feed" THEN FeedValues ELSE {"1"}

\* An Options map: a function from some of the keys to their values.
OptionsOver(keys) ==
    UNION {[K -> UNION {OptValues(k) : k \in K}] : K \in SUBSET keys}
WellTyped(o) == \A k \in DOMAIN o : o[k] \in OptValues(k)
AllOptions == {o \in OptionsOver(OptKeys) : WellTyped(o)}

\* The orders in which Go may range over a map with these keys.
RECURSIVE Orders(_)
Orders(K) ==
    IF K = {} THEN {<<>>}
    ELSE UNION {{<<k>> \o r : r \in Orders(K \ {k})} : k \in K}

\* ------------------------------------------------------------- the state
VARIABLES
    baseTimeout, \* Timeout of the base connection's http.Client (Connect)
    clients,     \* number of http.Client values created after Connect
    call,        \* per channel call: what it was given, did and returned
    last,        \* the last one-shot call: what it was given, did, returned
    pc,          \* per stream: where the background task is
    chan,        \* per stream: the channel: "nil", "open", "closed"
    wire,        \* per stream: the lines the server emitted on the connection
    rd,          \* per stream: how many lines the task has read
    cur,         \* per stream: the line (then event) the task holds
    recv,        \* per stream: the events the caller received, in order
    closes,      \* per stream: how often resp.Body.Close() was called
    rderr,       \* per stream: why reads of the body fail, or "none"
    why,         \* per stream: the panic value that ended the task
    crashed      \* an unrecovered panic took the process down

\* The state of the bulk deletes (DeleteMany, MustDeleteMany).
VARIABLES
    coll,        \* the collection the caller holds and passes as docs
    heap,        \* the caller's maps: a []map element is a reference to one
    dpc,         \* per task: where its bulkDelete call is
    dcall,       \* per task: the operation called and its atomic argument
    di,          \* per task: how many elements of docs the loop has shaped
    payload,     \* per task: the payload slice built so far
    dres,        \* per task: what its last finished call did and returned
    dprev,       \* per task: the same of the call before that one
    acc          \* per task: the caller's maps its call has read and written

delVars == <<coll, heap, dpc, dcall, di, payload, dres, dprev, acc>>

\* The state of the security objects (security.go).
VARIABLES
    stored,      \* the security object the server holds for the database
    sec,         \* per task: its DatabaseSecurity object (DefaultSecurity)
    spc,         \* per task: where its Add.../Delete... call is
    sop          \* per task: the call it makes or made last, and its result

secVars == <<stored, sec, spc, sop>>

vars == <<baseTimeout, clients, call, last, pc, chan, wire, rd, cur, recv,
          closes, rderr, why, crashed, delVars, secVars>>
streamVars == <<pc, chan, wire, rd, cur, recv, closes, rderr, why, crashed>>

\* ------------------------------------------------------------- transport
\* The URL Connect builds and validates: "http://%s:%d".
BaseURL == "http://localhost:5984"
\* url.Parse accepts the URLs Connect validated.
ValidURL(dest) == dest = BaseURL

\* The Auth values of the two handles (Server.auth, Database.auth).
srvAuth == "srvAuth"
dbAuth == "dbAuth"

\* The base connection Connect created: its http.Client is client 0.
baseConn == [client |-> 0, url |-> BaseURL, timeout |-> baseTimeout]
srv == [auth |-> srvAuth, conn |-> baseConn]
db == [conn |-> baseConn, auth |-> dbAuth, Name |-> "db"]

\* createConnection: a connection with its own http.Client (client id) and
\* the timeout it is given, or an error when the URL does not parse.
createConnection(dest, timeout, id) ==
    [ok |-> ValidURL(dest),
     conn |-> [client |-> id, url |-> dest, timeout |-> timeout]]

\* What the network and the server can answer to one request: a response
\* with status < 400, no response at all, a response with status >= 400.
Outcomes == {"ok", "neterr", "status"}

NoReq == [sent |-> FALSE, client |-> -1, method |-> "", url |-> <<>>,
          auth |-> "", err |-> "nil"]

\* connection.request and processResponse: the request goes out on the
\* connection's own client with the auth given; the error is the transport's.
request(conn, method, path, auth, outcome) ==
    IF ~ValidURL(conn.url)
    THEN [NoReq EXCEPT !.err = "transport"]
    ELSE [sent |-> TRUE, client |-> conn.client, method |-> method,
          url |-> <<conn.url>> \o path, auth |-> auth,
          err |-> IF outcome = "ok" THEN "nil" ELSE "transport"]

\* strings.TrimRight(s, cut) and strings.Trim(s, cut), on tokens.
RECURSIVE TrimRight(_, _)
TrimRight(s, cut) ==
    IF s # <<>> /\ s[Len(s)] = cut
    THEN TrimRight(SubSeq(s, 1, Len(s) - 1), cut)
    ELSE s
RECURSIVE TrimLeft(_, _)
TrimLeft(s, cut) ==
    IF s # <<>> /\ s[1] = cut THEN TrimLeft(Tail(s), cut) ELSE s
Trim(s, cut) == TrimLeft(TrimRight(s, cut), cut)

\* queryURL: "/" before every item, then the trailing "/" trimmed.
RECURSIVE JoinPath(_)
JoinPath(items) ==
    IF items = <<>> THEN <<>>
    ELSE <<"/">> \o Head(items) \o JoinPath(Tail(items))
queryURL(items) == TrimRight(JoinPath(items), "/")

\* fmt.Sprintf("%s=%v", k, v) and fmt.Sprintf("&%s=%v", k, v).
FmtKV(k, v) == <<k, "=", v>>
FmtAmpKV(k, v) == <<"&", k, "=", v>>

\* The loop `for k, v := range options { query = query + f(k, v) }`, with
\* the keys met in the order ord.
RECURSIVE RangeConcat(_, _, _)
RangeConcat(options, ord, amp) ==
    IF ord = <<>> THEN <<>>
    ELSE (IF amp THEN FmtAmpKV(Head(ord), options[Head(ord)])
                 ELSE FmtKV(Head(ord), options[Head(ord)]))
         \o RangeConcat(options, Tail(ord), amp)

\* delete(options, key)
Delete(options, key) == [k \in DOMAIN options \ {key} |-> options[k]]

\* ------------------------------------------- the server's reading of a URL
\* The index of the first tok in s, or 0.
RECURSIVE IndexOf(_, _, _)
IndexOf(s, tok, i) ==
    IF i > Len(s) THEN 0
    ELSE IF s[i] = tok THEN i ELSE IndexOf(s, tok, i + 1)

\* The pieces of s between the tokens tok.
RECURSIVE Split(_, _)
Split(s, tok) ==
    LET i == IndexOf(s, tok, 1) IN
    IF i = 0 THEN <<s>>
    ELSE <<SubSeq(s, 1, i - 1)>> \o Split(SubSeq(s, i + 1, Len(s)), tok)

\* The query parameters the server sees in a URL: what follows the first
\* "?", cut at every "&", each piece cut at its first "=" into key and value.
ParseQuery(url) ==
    LET q == IndexOf(url, "?", 1)
        raw == IF q = 0 THEN <<>> ELSE SubSeq(url, q + 1, Len(url))
        pieces == IF raw = <<>> THEN <<>> ELSE Split(raw, "&")
        Param(p) == LET e == IndexOf(p, "=", 1) IN
                    IF e = 0 THEN <<p, <<>>>>
                    ELSE <<SubSeq(p, 1, e - 1), SubSeq(p, e + 1, Len(p))>>
    IN {Param(pieces[i]) : i \in {j \in 1..Len(pieces) : pieces[j] # <<>>}}

\* The endpoint a URL addresses: what precedes the first "?".
PathOf(url) ==
    LET q == IndexOf(url, "?", 1) IN
    IF q = 0 THEN url ELSE SubSeq(url, 1, q - 1)

\* ------------------------------------------------------- the channel calls
NoConn == [client |-> -1, url |-> "", timeout |-> 0]
NoCall == [op |-> "none", opts |-> <<>>, after |-> <<>>, err |-> "nil",
           retChan |-> FALSE, copied |-> FALSE, conn |-> NoConn,
           auth |-> "", req |-> NoReq, task |-> FALSE]

\* Database.copy_db: the same database on a connection of its own.
copy_db(id) ==
    LET c == createConnection(db.conn.url, db.conn.timeout, id) IN
    [ok |-> c.ok, conn |-> c.conn, auth |-> db.auth, Name |-> db.Name]

\* Server.Copy: the same server on a connection of its own.
Copy(id) ==
    LET c == createConnection(srv.conn.url, srv.conn.timeout, id) IN
    [ok |-> c.ok, conn |-> c.conn, auth |-> srv.auth]

\* The feed check of GetChangesChan: a feed option that is not continuous.
WrongFeedChanUnchecked(options) == FALSE
WrongFeedChan(options) ==
    "feed" \in DOMAIN options /\ options["feed"] # continuous

\* The feed check of GetAllChanges: a feed option that is continuous.
WrongFeedOneShot(options) ==
    "feed" \in DOMAIN options /\ options["feed"] = continuous

\* The literal "_changes?feed=continuous".
ChangesFeed == <<"_changes", "?", "feed", "=", continuous>>

\* The query GetChangesChan builds from the options left after the feed
\* check, ranging over them in the order ord.
ChangesChanQuery(opts, ord) ==
    LET query == RangeConcat(opts, ord, FALSE) IN
    IF Cardinality(DOMAIN opts) > 0
    THEN ChangesFeed \o Trim(query, "&")
    ELSE ChangesFeed

\* The connection GetChangesChan sends the streaming request on.
ChangesChanConnBase(cpdb) == db.conn
ChangesChanConn(cpdb) == cpdb.conn

\* Database.GetChangesChan(options), up to `go func()`: what the call
\* returns and what it did, with the map ranged over in the order ord, id
\* the next http.Client and outcome the transport's answer.
GetChangesChanCall(options, ord, id, outcome) ==
    LET ok == "feed" \in DOMAIN options
        base == [NoCall EXCEPT !.op = "GetChangesChan", !.opts = options,
                               !.after = options]
    IN
    IF WrongFeedChan(options)
    THEN [base EXCEPT !.err = "config"]
    ELSE
      LET opts == IF ok THEN Delete(options, "feed") ELSE options
          query == ChangesChanQuery(opts, ord)
          cpdb == copy_db(id)
          resp == request(ChangesChanConn(cpdb), "GET",
                          queryURL(<<<<db.Name>>, query>>), cpdb.auth, outcome)
          made == [base EXCEPT !.after = opts, !.retChan = TRUE]
      IN
      IF ~cpdb.ok
      THEN [made EXCEPT !.err = "copy"]
      ELSE IF resp.err # "nil"
      THEN [made EXCEPT !.copied = TRUE, !.conn = cpdb.conn,
                        !.auth = cpdb.auth, !.req = resp, !.err = resp.err]
      ELSE [made EXCEPT !.copied = TRUE, !.conn = cpdb.conn,
                        !.auth = cpdb.auth, !.req = resp, !.task = TRUE]

\* The literal "/_db_updates?feed=continuous".
DBUpdatesFeed == <<"/", "_db_updates", "?", "feed", "=", continuous>>

\* Server.GetDBEventChan(), up to `go func()`.
GetDBEventChanCall(id, outcome) ==
    LET cpSrv == Copy(id)
        resp == request(cpSrv.conn, "GET", DBUpdatesFeed, srv.auth, outcome)
        base == [NoCall EXCEPT !.op = "GetDBEventChan"]
    IN
    IF ~cpSrv.ok
    THEN [base EXCEPT !.err = "copy"]
    ELSE IF resp.err # "nil"
    THEN [base EXCEPT !.copied = TRUE, !.conn = cpSrv.conn,
                      !.auth = cpSrv.auth, !.req = resp, !.err = resp.err]
    ELSE [base EXCEPT !.copied = TRUE, !.conn = cpSrv.conn,
                      !.auth = cpSrv.auth, !.req = resp, !.retChan = TRUE,
                      !.task = TRUE]

\* ------------------------------------------------------ the one-shot calls
NoLast == [op |-> "none", opts |-> <<>>, after |-> <<>>, err |-> "nil",
           req |-> NoReq]

\* Database.GetAllChanges(options).
GetAllChangesCall(options, ord, outcome) ==
    LET base == [NoLast EXCEPT !.op = "GetAllChanges", !.opts = options,
                               !.after = options]
        q0 == RangeConcat(options, ord, TRUE)
        query == IF Cardinality(DOMAIN options) > 0
                 THEN <<"_changes", "?">> \o Trim(q0, "&")
                 ELSE <<"_changes">>
        resp == request(db.conn, "GET", queryURL(<<<<db.Name>>, query>>),
                        db.auth, outcome)
    IN
    IF WrongFeedOneShot(options)
    THEN [base EXCEPT !.err = "config"]
    ELSE [base EXCEPT !.req = resp, !.err = resp.err]

\* Server.GetDBEvent(o, options).
GetDBEventCall(options, ord, outcome) ==
    LET base == [NoLast EXCEPT !.op = "GetDBEvent", !.opts = options,
                               !.after = options]
        u0 == RangeConcat(options, ord, TRUE)
        url == IF Len(u0) > 0
               THEN <<"/", "_db_updates", "?">> \o Trim(u0, "&")
               ELSE <<"/", "_db_updates">>
        resp == request(srv.conn, "GET", url, srv.auth, outcome)
    IN [base EXCEPT !.req = resp, !.err = resp.err]

\* ----------------------------------------------------------------- Init
NoLine == [seq |-> 0, ok |-> FALSE]

\* The tasks (goroutines) that call DeleteMany / MustDeleteMany.
Tasks == {1, 2}

\* No collection, and a call that has not been made.
NoColl == [kind |-> "none", items |-> <<>>]
NoOp == [op |-> "none", atomic |-> FALSE]
NoRes == [called |-> FALSE, op |-> "none", atomic |-> FALSE, err |-> "nil",
          result |-> "nil", reqs |-> 0, req |-> NoReq, headers |-> <<>>,
          body |-> <<>>]
NoAcc == [r |-> {}, w |-> {}]

\* The four lists of a security object, and the object with empty lists.
Lists == {"Admins.Names", "Admins.Roles", "Members.Names", "Members.Roles"}
NoSecurity == [l \in Lists |-> <<>>]
NoError == <<>>
NoSecOp == [op |-> "none", list |-> "none", x |-> "", delete |-> FALSE,
            err |-> NoError, before |-> NoSecurity, got |-> FALSE,
            put |-> FALSE, req |-> NoReq]

\* Before any security call: every task idle, with a fresh object.
SecIdle ==
    /\ stored = NoSecurity
    /\ sec = [p \in Tasks |-> NoSecurity]
    /\ spc = [p \in Tasks |-> "idle"]
    /\ sop = [p \in Tasks |-> NoSecOp]

\* Before any bulk delete: every task idle.
DeleteIdle ==
    /\ dpc = [p \in Tasks |-> "idle"]
    /\ dcall = [p \in Tasks |-> NoOp]
    /\ di = [p \in Tasks |-> 0]
    /\ payload = [p \in Tasks |-> <<>>]
    /\ dres = [p \in Tasks |-> NoRes]
    /\ dprev = [p \in Tasks |-> NoRes]
    /\ acc = [p \in Tasks |-> NoAcc]

\* After Connect: no stream, no call.
InitBase ==
    /\ baseTimeout \in Timeouts
    /\ clients = 0
    /\ call = [s \in Streams |-> NoCall]
    /\ last = NoLast
    /\ pc = [s \in Streams |-> "idle"]
    /\ chan = [s \in Streams |-> "nil"]
    /\ wire = [s \in Streams |-> <<>>]
    /\ rd = [s \in Streams |-> 0]
    /\ cur = [s \in Streams |-> NoLine]
    /\ recv = [s \in Streams |-> <<>>]
    /\ closes = [s \in Streams |-> 0]
    /\ rderr = [s \in Streams |-> "none"]
    /\ why = [s \in Streams |-> "none"]
    /\ crashed = FALSE

Init ==
    /\ InitBase
    /\ DeleteIdle
    /\ SecIdle
    /\ coll = NoColl
    /\ heap = <<>>

\* ------------------------------------------------------ the call actions
\* The slot of the next channel call.
NextSlot(s) ==
    /\ call[s].op = "none"
    /\ \A t \in Streams : t < s => call[t].op # "none"

\* A channel call returns res: the channel it made, the client it created
\* and the background task it started become part of the state.
Returned(s, res) ==
    /\ call' = [call EXCEPT ![s] = res]
    /\ clients' = IF res.copied THEN clients + 1 ELSE clients
    /\ chan' = [chan EXCEPT ![s] = IF res.retChan THEN "open" ELSE "nil"]
    /\ pc' = [pc EXCEPT ![s] = IF res.task THEN "read" ELSE "idle"]
    /\ UNCHANGED <<baseTimeout, last, wire, rd, cur, recv, closes, rderr,
                   why, crashed>>
    /\ UNCHANGED <<delVars, secVars>>

GetChangesChan(s, options) ==
    /\ NextSlot(s)
    /\ \E outcome \in Outcomes :
       \E ord \in Orders(DOMAIN options \ {"feed"}) :
          Returned(s, GetChangesChanCall(options, ord, clients + 1, outcome))

GetDBEventChan(s) ==
    /\ NextSlot(s)
    /\ \E outcome \in Outcomes :
          Returned(s, GetDBEventChanCall(clients + 1, outcome))

GetAllChanges(options) ==
    /\ \E outcome \in Outcomes : \E ord \in Orders(DOMAIN options) :
          last' = GetAllChangesCall(options, ord, outcome)
    /\ UNCHANGED <<baseTimeout, clients, call, streamVars>>
    /\ UNCHANGED <<delVars, secVars>>

GetDBEvent(options) ==
    /\ \E outcome \in Outcomes : \E ord \in Orders(DOMAIN options) :
          last' = GetDBEventCall(options, ord, outcome)
    /\ UNCHANGED <<baseTimeout, clients, call, streamVars>>
    /\ UNCHANGED <<delVars, secVars>>

\* --------------------------------------------------- the background task
Opened(s) == pc[s] \notin {"idle", "done"}

RECURSIVE SumLen(_, _)
SumLen(f, S) ==
    IF S = {} THEN 0
    ELSE LET x == CHOOSE y \in S : TRUE IN Len(f[x]) + SumLen(f, S \ {x})
TotalLines == SumLen(wire, Streams)

\* reader.ReadBytes('\n'): the next line of the body, in the server's order.
NextLineNewest(s) == wire[s][Len(wire[s])]
NextLine(s) == wire[s][rd[s] + 1]

\* json.Unmarshal(line, &payload) returned no error.
Decodes(line) == line.ok

\* `c <- payload`, met by the caller's `<-c`: what the caller has received.
DeliveredDropped(s) == recv[s]
Delivered(s) == Append(recv[s], cur[s].seq)

\* The deferred function of the task: recover() stops the panic r, and for
\* r != nil the response body is closed.
DeferredOnCloseOnly(op, r) ==
    [recovered |-> TRUE, closes |-> IF r = "closed" THEN 1 ELSE 0]
DeferredNoRecover(op, r) ==
    [recovered |-> FALSE, closes |-> 1]
Deferred(op, r) ==
    [recovered |-> TRUE, closes |-> IF r # "nil" THEN 1 ELSE 0]

\* The task reads the next line; the read fails once the connection broke
\* or the client's timer ran out (lines already buffered may still come).
TaskRead(s) ==
    /\ pc[s] = "read"
    /\ \/ /\ rd[s] < Len(wire[s])
          /\ cur' = [cur EXCEPT ![s] = NextLine(s)]
          /\ rd' = [rd EXCEPT ![s] = rd[s] + 1]
          /\ pc' = [pc EXCEPT ![s] = "decode"]
          /\ why' = why
       \/ /\ rderr[s] # "none"
          /\ pc' = [pc EXCEPT ![s] = "panic"]
          /\ why' = [why EXCEPT ![s] = "read"]
          /\ UNCHANGED <<cur, rd>>
    /\ UNCHANGED <<baseTimeout, clients, call, last, chan, wire, recv,
                   closes, rderr, crashed>>
    /\ UNCHANGED <<delVars, secVars>>

\* The task decodes the line it read, and panics when it is no event.
TaskDecode(s) ==
    /\ pc[s] = "decode"
    /\ IF Decodes(cur[s])
       THEN pc' = [pc EXCEPT ![s] = "send"] /\ why' = why
       ELSE /\ pc' = [pc EXCEPT ![s] = "panic"]
            /\ why' = [why EXCEPT ![s] = "decode"]
    /\ UNCHANGED <<baseTimeout, clients, call, last, chan, wire, rd, cur,
                   recv, closes, rderr, crashed>>
    /\ UNCHANGED <<delVars, secVars>>

\* The send on the unbuffered channel completes with the caller's receive.
Receive(s) ==
    /\ pc[s] = "send"
    /\ chan[s] = "open"
    /\ recv' = [recv EXCEPT ![s] = Delivered(s)]
    /\ pc' = [pc EXCEPT ![s] = "read"]
    /\ UNCHANGED <<baseTimeout, clients, call, last, chan, wire, rd, cur,
                   closes, rderr, why, crashed>>
    /\ UNCHANGED <<delVars, secVars>>

\* A send on a closed channel panics, also when it was already blocked.
TaskSendClosed(s) ==
    /\ pc[s] = "send"
    /\ chan[s] = "closed"
    /\ pc' = [pc EXCEPT ![s] = "panic"]
    /\ why' = [why EXCEPT ![s] = "closed"]
    /\ UNCHANGED <<baseTimeout, clients, call, last, chan, wire, rd, cur,
                   recv, closes, rderr, crashed>>
    /\ UNCHANGED <<delVars, secVars>>

\* A deferred function that would also close the channel when the task
\* stops.
TaskRecoverClosing(s) ==
    /\ pc[s] = "panic"
    /\ LET d == Deferred(call[s].op, why[s]) IN
          /\ closes' = [closes EXCEPT ![s] = closes[s] + d.closes]
          /\ crashed' = (crashed \/ ~d.recovered)
    /\ pc' = [pc EXCEPT ![s] = "done"]
    /\ chan' = [chan EXCEPT ![s] = "closed"]
    /\ UNCHANGED <<baseTimeout, clients, call, last, wire, rd, cur,
                   recv, rderr, why>>
    /\ UNCHANGED <<delVars, secVars>>

\* The panic unwinds into the deferred function and the task ends.
TaskRecover(s) ==
    /\ pc[s] = "panic"
    /\ LET d == Deferred(call[s].op, why[s]) IN
          /\ closes' = [closes EXCEPT ![s] = closes[s] + d.closes]
          /\ crashed' = (crashed \/ ~d.recovered)
    /\ pc' = [pc EXCEPT ![s] = "done"]
    /\ UNCHANGED <<baseTimeout, clients, call, last, chan, wire, rd, cur,
                   recv, rderr, why>>
    /\ UNCHANGED <<delVars, secVars>>

\* ------------------------------------------ the caller and the environment
\* The caller closes the channel it was given.
CallerClose(s) ==
    /\ chan[s] = "open"
    /\ chan' = [chan EXCEPT ![s] = "closed"]
    /\ UNCHANGED <<baseTimeout, clients, call, last, pc, wire, rd, cur, recv,
                   closes, rderr, why, crashed>>
    /\ UNCHANGED <<delVars, secVars>>

\* The server emits one more line on a healthy connection: an event, or a
\* line that is no event (an empty heartbeat line, a truncated object).
ServerEmit(s, ok) ==
    /\ Opened(s)
    /\ rderr[s] = "none"
    /\ TotalLines < MaxLines
    /\ wire' = [wire EXCEPT ![s] = Append(@, [seq |-> Len(@) + 1, ok |-> ok])]
    /\ UNCHANGED <<baseTimeout, clients, call, last, pc, chan, rd, cur, recv,
                   closes, rderr, why, crashed>>
    /\ UNCHANGED <<delVars, secVars>>

\* The connection drops.
ConnBreak(s) ==
    /\ Opened(s)
    /\ rderr[s] = "none"
    /\ rderr' = [rderr EXCEPT ![s] = "broken"]
    /\ UNCHANGED <<baseTimeout, clients, call, last, pc, chan, wire, rd, cur,
                   recv, closes, why, crashed>>
    /\ UNCHANGED <<delVars, secVars>>

\* http.Client.Timeout of the stream's client runs out: it covers the
\* reading of the response body, so the reads fail from then on.
TimerFire(s) ==
    /\ Opened(s)
    /\ rderr[s] = "none"
    /\ call[s].conn.timeout > 0
    /\ rderr' = [rderr EXCEPT ![s] = "timeout"]
    /\ UNCHANGED <<baseTimeout, clients, call, last, pc, chan, wire, rd, cur,
                   recv, closes, why, crashed>>
    /\ UNCHANGED <<delVars, secVars>>

\* ------------------------------------------------------- specifications
\* The options the streams are opened with: GetChangesChan(nil).
StreamOptions == {o \in AllOptions : DOMAIN o = {}}

TaskStep(s) ==
    TaskRead(s) \/ TaskDecode(s) \/ TaskSendClosed(s) \/ TaskRecover(s)

Next ==
    \/ \E s \in Streams : \E o \in StreamOptions : GetChangesChan(s, o)
    \/ \E s \in Streams : GetDBEventChan(s)
    \/ \E s \in Streams : TaskRead(s)
    \/ \E s \in Streams : TaskDecode(s)
    \/ \E s \in Streams : Receive(s)
    \/ \E s \in Streams : TaskSendClosed(s)
    \/ \E s \in Streams : TaskRecover(s)
    \/ \E s \in Streams : CallerClose(s)
    \/ \E s \in Streams : \E ok \in BOOLEAN : ServerEmit(s, ok)
    \/ \E s \in Streams : ConnBreak(s)
    \/ \E s \in Streams : TimerFire(s)

Spec == Init /\ [][Next]_vars

\* The scheduler runs a task that can take a step, and a timer that was set
\* runs out; nothing makes the server emit or the caller receive or close.
FairSpec ==
    /\ Spec
    /\ \A s \in Streams : WF_vars(TaskStep(s))
    /\ \A s \in Streams : WF_vars(TimerFire(s))

\* The calls alone, over every Options map: one channel call, and one-shot
\* calls before and after it.
NextCalls ==
    \/ \E o \in AllOptions : GetChangesChan(1, o)
    \/ GetDBEventChan(1)
    \/ \E o \in AllOptions : GetAllChanges(o)
    \/ \E o \in AllOptions : GetDBEvent(o)

SpecCalls == Init /\ [][NextCalls]_vars

\* ================================================================ claims
Started(s) == call[s].task

\* The sequence numbers of the events among the lines of w.
RECURSIVE Events(_)
Events(w) ==
    IF w = <<>> THEN <<>>
    ELSE (IF Decodes(Head(w)) THEN <<Head(w).seq>> ELSE <<>>)
         \o Events(Tail(w))

IsPrefix(a, b) == Len(a) <= Len(b) /\ SubSeq(b, 1, Len(a)) = a

\* C1: on every stream, what the caller has received is at every moment a
\* prefix of the well-formed lines the server emitted, in the server's order.
C1_ReceivedIsPrefix ==
    \A s \in Streams : IsPrefix(recv[s], Events(wire[s]))

\* C1 witness: a caller has received two events of a stream.
C1_Witness == \E s \in Streams : Len(recv[s]) = 2

\* C2: once the caller has closed the channel of an open stream, the task
\* eventually has closed the response body and stopped.
C2_CloseDetected ==
    \A s \in Streams :
        (Started(s) /\ chan[s] = "closed") ~> (pc[s] = "done" /\ closes[s] = 1)

\* C3: the response body of a stream is closed at most once, and exactly
\* once when the task has stopped, whatever ended it.
C3_ClosedExactlyOnce ==
    \A s \in Streams :
        /\ closes[s] <= 1
        /\ pc[s] = "done" => closes[s] = 1
        /\ ~Started(s) => closes[s] = 0

\* C3 witness: one task was ended by the closed channel and another by a
\* read error or a malformed line, and both have stopped.
C3_Witness ==
    \E s, t \in Streams :
        /\ pc[s] = "done" /\ why[s] = "closed" /\ closes[s] = 1
        /\ pc[t] = "done" /\ why[t] \in {"read", "decode"} /\ closes[t] = 1

Failed(s) == pc[s] \in {"panic", "done"} /\ why[s] \in {"read", "decode"}

\* C4: a read error or a malformed line ends the task and not the process:
\* the panic is recovered, the body is closed once the task has stopped, no
\* event was sent for the failing line, and none is sent afterwards.
C4_FailureEndsTaskOnly ==
    /\ [](~crashed)
    /\ [](\A s \in Streams :
            /\ Failed(s) /\ pc[s] = "done" => closes[s] = 1
            /\ Failed(s) /\ why[s] = "decode" =>
                  \A i \in 1..Len(recv[s]) : recv[s][i] < rd[s])
    /\ [][\A s \in Streams :
            Failed(s) => Failed(s)' /\ recv'[s] = recv[s] /\ rd'[s] = rd[s]]_vars

\* C4 witness: a task has stopped on a malformed line after an event was
\* delivered, with a further line waiting on the connection.
C4_Witness ==
    \E s \in Streams :
        /\ pc[s] = "done" /\ why[s] = "decode"
        /\ Len(recv[s]) = 1 /\ Len(wire[s]) > rd[s]

\* C5: while the channel is open, every event the task has decoded was
\* received by the caller, but for the one it holds in the send: the task
\* reads no further line before that one is received.
C5_NoLossWhileOpen ==
    \A s \in Streams :
        chan[s] = "open" =>
            LET held == pc[s] \in {"decode", "send"}
                done == SubSeq(wire[s], 1, IF held THEN rd[s] - 1 ELSE rd[s])
            IN recv[s] = Events(done)

\* C5 witness: the task is blocked in the send of a second event while the
\* server has emitted a further line the task has not read.
C5_Witness ==
    \E s \in Streams :
        /\ chan[s] = "open" /\ pc[s] = "send"
        /\ Len(recv[s]) = 1 /\ Len(wire[s]) > rd[s]

HasFeed(o, v) == "feed" \in DOMAIN o /\ o["feed"] = v
HasOtherFeed(o) == "feed" \in DOMAIN o /\ o["feed"] # continuous

C7_PollRejectsContinuous ==
    last.op = "GetDBEvent" /\ HasFeed(last.opts, continuous) =>
        last.err = "config" /\ ~last.req.sent

\* C8: while the caller keeps the channel open and the connection is healthy
\* (it did not drop, and every line is an event), the task does not end.
C8_NoBuiltinTimeout ==
    \A s \in Streams :
        (/\ Started(s) /\ chan[s] = "open" /\ rderr[s] # "broken"
         /\ \A i \in 1..Len(wire[s]) : Decodes(wire[s][i]))
        => pc[s] \notin {"panic", "done"}

StreamOf(s) ==
    <<call[s], pc[s], chan[s], wire[s], rd[s], cur[s], recv[s], closes[s],
      rderr[s], why[s]>>

\* C9: every successful channel call made one new connection, a client of
\* its own with the base connection's URL and timeout, sent its request on
\* it with the handle's credentials, and started one task; a stream that is
\* closed or that fails changes nothing of another stream.
C9_OwnConnectionAndTask ==
    /\ [](\A s \in Streams :
            /\ pc[s] # "idle" <=> Started(s)
            /\ Started(s) =>
                 /\ call[s].err = "nil" /\ call[s].copied
                 /\ call[s].conn.client # baseConn.client
                 /\ call[s].conn.url = baseConn.url
                 /\ call[s].conn.timeout = baseConn.timeout
                 /\ call[s].req.sent
                 /\ call[s].req.client = call[s].conn.client
                 /\ call[s].req.auth =
                      (IF call[s].op = "GetChangesChan" THEN db.auth
                                                        ELSE srv.auth)
                 /\ \A t \in Streams \ {s} :
                      call[t].copied =>
                          call[t].conn.client # call[s].conn.client)
    /\ [](clients = Cardinality({s \in Streams : call[s].copied}))
    /\ [][\A s \in Streams :
            (\/ chan[s] = "open" /\ chan'[s] = "closed"
             \/ ~Failed(s) /\ Failed(s)'
             \/ pc[s] # "done" /\ pc'[s] = "done")
            => \A t \in Streams \ {s} : StreamOf(t)' = StreamOf(t)]_vars

\* C9 witness: a database stream and a server stream were opened; one has
\* stopped and the other still delivers.
C9_Witness ==
    \E s, t \in Streams :
        /\ call[s].op = "GetChangesChan" /\ call[t].op = "GetDBEventChan"
        /\ Started(s) /\ Started(t)
        /\ pc[s] = "done" /\ pc[t] = "send" /\ Len(recv[t]) = 1

\* C10: the request of GetChangesChan addresses the database's _changes
\* endpoint, and the server reads from it feed=continuous and every other
\* option as a parameter of its own.
C10_OptionsReachServer ==
    \A s \in Streams :
        call[s].op = "GetChangesChan" /\ call[s].req.sent =>
            /\ PathOf(call[s].req.url) =
                   <<BaseURL, "/", db.Name, "/", "_changes">>
            /\ ParseQuery(call[s].req.url) =
                   {<<<<"feed">>, <<continuous>>>>} \cup
                   {<<<<k>>, <<call[s].opts[k]>>>> :
                        k \in DOMAIN call[s].opts \ {"feed"}}

\* ---------------------------------------------------------------------
\* Bulk deletes: DeleteMany, MustDeleteMany, bulkDelete, Update
\* ---------------------------------------------------------------------

\* The longest collection a caller passes.
MaxDocs == 2

appJSON == "application/json"

\* The errors of bulkDelete.
ErrInvalid ==
    "Invalid argument type, expected []map[string]interface{} or []interface{}"
ErrMapNoID == "One of the maps, does not contain \"_id\" key"
ErrMapNoRev == "One of the maps, does not contain \"_rev\" key"
ErrDocNoID == "One of documents miss \"_id\" field or tag"
ErrDocNoRev == "One of documents miss \"_rev\" field or tag"
ErrUnsupported == "Unsupported document type"
ErrNotSlice == "DeleteMany accepts only slices"

\* m[k] = v on a Go map.
Put(m, k, v) == [x \in DOMAIN m \cup {k} |-> IF x = k THEN v ELSE m[x]]

\* The maps a caller holds as cell j of its memory: with or without "_id",
\* "_rev" and a "_deleted" flag of its own; the values tell the cells apart.
MapsAt(j) ==
    {[k \in K |-> CASE k = "_id" -> <<"id", j>>
                    [] k = "_rev" -> <<"rev", j>>
                    [] k = "_deleted" -> FALSE] :
         K \in SUBSET {"_id", "_rev", "_deleted"}}

\* The caller's memory: up to MaxDocs maps.
Heaps ==
    UNION {{h \in [1..n -> UNION {MapsAt(j) : j \in 1..n}] :
                \A j \in 1..n : h[j] \in MapsAt(j)} : n \in 0..MaxDocs}

\* Struct fields: the json tag as its tokens, whether the field is a Go
\* string, and its value.
Field(tag, str, val) == [tag |-> tag, str |-> str, val |-> val]
F_id == Field(<<"_id">>, TRUE, "a")
F_idb == Field(<<"_id">>, TRUE, "b")
F_rev == Field(<<"_rev">>, TRUE, "1-x")
F_revo == Field(<<"_rev", ",", "omitempty">>, TRUE, "2-y")
F_prev == Field(<<"prev", "_rev">>, TRUE, "0-p")
F_ido == Field(<<"_id", ",", "omitempty">>, TRUE, "c")
F_idint == Field(<<"_id">>, FALSE, "7")
F_count == Field(<<"count">>, FALSE, "3")

Struct(fields) == [isStruct |-> TRUE, fields |-> fields]
\* An element of []interface{} that is no struct (an int, a nil, a pointer).
Scalar == [isStruct |-> FALSE, fields |-> <<>>]

\* Every order of declaration of three fields.
Perms3(a, b, c) ==
    {<<a, b, c>>, <<a, c, b>>, <<b, a, c>>, <<b, c, a>>, <<c, a, b>>,
     <<c, b, a>>}

\* The elements a caller puts in a []interface{}.
Elems ==
    {Struct(f) : f \in Perms3(F_id, F_revo, F_prev)} \cup
    {Struct(f) : f \in Perms3(F_idb, F_rev, F_count)} \cup
    {Struct(<<F_id, F_rev>>), Struct(<<F_revo, F_idb>>),
     Struct(<<F_id>>), Struct(<<F_rev>>), Struct(<<F_count>>),
     Struct(<<F_idint, F_rev>>), Struct(<<F_ido, F_revo>>), Scalar}

\* A value passed as docs: its reflect kind, for a slice the kind of its
\* element type, for a map element type the kind of the map's values, and
\* its elements (for a slice of maps: which of the caller's maps).
Docs(kind, elem, val, items) ==
    [kind |-> kind, elem |-> elem, val |-> val, items |-> items]

SeqsUpTo(S, n) == UNION {[1..k -> S] : k \in 0..n}

\* nil, an int, a struct, []map[string]string, []int, [][]int, []Doc.
OtherInputs ==
    {Docs("nil", "none", "none", <<>>),
     Docs("int", "none", "none", <<>>),
     Docs("struct", "none", "none", <<>>),
     Docs("slice", "map", "string", <<>>),
     Docs("slice", "int", "none", <<>>),
     Docs("slice", "slice", "none", <<>>),
     Docs("slice", "struct", "none", <<>>)}

\* What a caller holds before its calls: a []map[string]interface{} of its
\* maps, a []interface{} of elements, or one of the other values.
Holds(elems) ==
    \/ \E h \in Heaps :
           /\ coll = Docs("slice", "map", "interface", [j \in DOMAIN h |-> j])
           /\ heap = h
    \/ \E it \in SeqsUpTo(elems, MaxDocs) :
           /\ coll = Docs("slice", "interface", "none", it)
           /\ heap = <<>>
    \/ \E d \in OtherInputs :
           /\ coll = d
           /\ heap = <<>>

\* strings.Contains(tag, sub) for a tag given as its tokens.
Contains(tag, sub) == \E i \in DOMAIN tag : tag[i] = sub

\* The inner loop of bulkDelete over the fields k.. of one struct: the
\* record temp it builds, or a panic of a .(string) assertion.
RECURSIVE ShapeFields(_, _, _)
ShapeFields(fields, k, temp) ==
    IF k > Len(fields) THEN [panic |-> FALSE, temp |-> temp]
    ELSE LET f == fields[k]
             isID == f.tag = <<"_id">>
             isRev == Contains(f.tag, "_rev")
             t1 == IF isID THEN Put(temp, "_id", f.val) ELSE temp
             t2 == IF isRev THEN Put(t1, "_rev", f.val) ELSE t1
         IN IF (isID \/ isRev) /\ ~f.str
            THEN [panic |-> TRUE, temp |-> temp]
            ELSE ShapeFields(fields, k + 1, t2)

\* One pass of the struct loop: dt.NumField() panics on a non-struct; the
\* outcome is a panic, an error, or the record to append.
ShapeDoc(e) ==
    IF ~e.isStruct THEN [panic |-> TRUE, err |-> "nil", rec |-> <<>>]
    ELSE LET r == ShapeFields(e.fields, 1, <<>>)
         IN IF r.panic THEN [panic |-> TRUE, err |-> "nil", rec |-> <<>>]
            ELSE IF "_id" \notin DOMAIN r.temp
            THEN [panic |-> FALSE, err |-> ErrDocNoID, rec |-> <<>>]
            ELSE IF "_rev" \notin DOMAIN r.temp
            THEN [panic |-> FALSE, err |-> ErrDocNoRev, rec |-> <<>>]
            ELSE [panic |-> FALSE, err |-> "nil",
                  rec |-> Put(r.temp, "_deleted", TRUE)]

\* One pass of the map loop: the error it returns, if any.
MapErrRevFirst(m) ==
    IF "_rev" \notin DOMAIN m THEN ErrMapNoRev
    ELSE IF "_id" \notin DOMAIN m THEN ErrMapNoID
    ELSE "nil"
MapErr(m) ==
    IF "_id" \notin DOMAIN m THEN ErrMapNoID
    ELSE IF "_rev" \notin DOMAIN m THEN ErrMapNoRev
    ELSE "nil"

\* m["_deleted"] = true.
MarkDeletedNot(m) == m
MarkDeletedToggle(m) ==
    Put(m, "_deleted", IF "_deleted" \in DOMAIN m THEN ~m["_deleted"] ELSE TRUE)
MarkDeleted(m) == Put(m, "_deleted", TRUE)

\* The head of bulkDelete: in.Kind() panics on the nil type, the assertion
\* docs.([]map[string]interface{}) panics on another map type.
EntryNoAssert(docs) ==
    IF docs.kind = "nil" THEN "panic"
    ELSE IF docs.kind # "slice" THEN "notslice"
    ELSE IF docs.elem = "map" THEN "maps"
    ELSE IF docs.elem = "interface" THEN "docs"
    ELSE "unsupported"
Entry(docs) ==
    IF docs.kind = "nil" THEN "panic"
    ELSE IF docs.kind # "slice" THEN "notslice"
    ELSE IF docs.elem = "map"
    THEN IF docs.val = "interface" THEN "maps" ELSE "panic"
    ELSE IF docs.elem = "interface" THEN "docs"
    ELSE "unsupported"

\* What a call that sent nothing returns.
Failure(c, err) ==
    [NoRes EXCEPT !.called = TRUE, !.op = c.op, !.atomic = c.atomic,
                  !.err = err]

\* The deferred function of bulkDelete: a panic becomes a nil result and
\* the "Invalid argument type" error.
RecoverNone(c) ==
    [res |-> Failure(c, "nil"), crashed |-> TRUE]
Recover(c) ==
    [res |-> Failure(c, ErrInvalid), crashed |-> FALSE]

\* Update: the headers and the JSON object it marshals.
UpdateHeaders(fullCommit) ==
    [k \in {"Content-Type"} \cup
           (IF fullCommit THEN {"X-Couch-Full-Commit"} ELSE {}) |->
        IF k = "Content-Type" THEN appJSON ELSE "true"]
UpdateBodyAlways(docs, atomic, updateRev) ==
    [k \in {"docs", "all_or_nothing"} \cup
           (IF ~updateRev THEN {"new_edits"} ELSE {}) |->
        CASE k = "docs" -> docs
          [] k = "new_edits" -> FALSE
          [] k = "all_or_nothing" -> TRUE]
UpdateBody(docs, atomic, updateRev) ==
    [k \in {"docs"} \cup (IF ~updateRev THEN {"new_edits"} ELSE {})
                    \cup (IF atomic THEN {"all_or_nothing"} ELSE {}) |->
        CASE k = "docs" -> docs
          [] k = "new_edits" -> FALSE
          [] k = "all_or_nothing" -> TRUE]

\* Update: one POST to <db>/_bulk_docs with db.auth; the result is the
\* server's list, or nil with the transport's error.
Update(docs, atomic, updateRev, fullCommit, outcome) ==
    LET req == request(db.conn, "POST", queryURL(<<<<db.Name>>, <<"_bulk_docs">>>>),
                       db.auth, outcome)
    IN [called |-> TRUE, op |-> "Update", atomic |-> atomic, err |-> req.err,
        result |-> IF req.err = "nil" THEN "results" ELSE "nil",
        reqs |-> IF req.sent THEN 1 ELSE 0, req |-> req,
        headers |-> UpdateHeaders(fullCommit),
        body |-> UpdateBody(docs, atomic, updateRev)]

\* The state the bulk deletes leave alone, but for a crash.
feedVars == <<baseTimeout, clients, call, last, pc, chan, wire, rd, cur,
              recv, closes, rderr, why, secVars>>

\* The task's call is between its first and its last statement.
Running(p) == dpc[p] \in {"maps", "docs", "update"}

\* bulkDelete(docs, atomic, true, true) up to its loop, called by op.
bulkDelete(p, op, atomic) ==
    LET c == [op |-> op, atomic |-> atomic]
        e == Entry(coll)
        rc == Recover(c)
    IN /\ dprev' = [dprev EXCEPT ![p] = dres[p]]
       /\ dcall' = [dcall EXCEPT ![p] = c]
       /\ di' = [di EXCEPT ![p] = 0]
       /\ payload' = [payload EXCEPT ![p] = <<>>]
       /\ acc' = [acc EXCEPT ![p] = NoAcc]
       /\ CASE e = "panic" ->
                 /\ dpc' = [dpc EXCEPT ![p] = "done"]
                 /\ dres' = [dres EXCEPT ![p] = rc.res]
                 /\ crashed' = (crashed \/ rc.crashed)
            [] e = "notslice" ->
                 /\ dpc' = [dpc EXCEPT ![p] = "done"]
                 /\ dres' = [dres EXCEPT ![p] = Failure(c, ErrNotSlice)]
                 /\ crashed' = crashed
            [] e = "unsupported" ->
                 /\ dpc' = [dpc EXCEPT ![p] = "done"]
                 /\ dres' = [dres EXCEPT ![p] = Failure(c, ErrUnsupported)]
                 /\ crashed' = crashed
            [] OTHER ->
                 /\ dpc' = [dpc EXCEPT ![p] = e]
                 /\ dres' = [dres EXCEPT ![p] = NoRes]
                 /\ crashed' = crashed
       /\ UNCHANGED <<coll, heap, feedVars>>

\* DeleteMany(docs): the task's first call.
DeleteMany(p) ==
    /\ dpc[p] = "idle"
    /\ bulkDelete(p, "DeleteMany", FALSE)

\* MustDeleteMany(docs): the task's first call.
MustDeleteMany(p) ==
    /\ dpc[p] = "idle"
    /\ bulkDelete(p, "MustDeleteMany", TRUE)

\* A second call on the same collection, after the first returned.
DeleteAgain(p) ==
    /\ dpc[p] = "done"
    /\ ~dprev[p].called
    /\ \/ bulkDelete(p, "DeleteMany", FALSE)
       \/ bulkDelete(p, "MustDeleteMany", TRUE)

\* The other task's call has touched map j in a way that conflicts with a
\* read (w = FALSE) or a write (w = TRUE) of this task.
Conflict(p, j, w) ==
    \E q \in Tasks \ {p} :
        j \in acc[q].w \/ (w /\ j \in acc[q].r)

\* A conflicting access while the other call runs is a data race on a Go
\* map: the runtime may stop the program, or not notice.
RaceOutcome(p, js, w) ==
    IF \E j \in js : Conflict(p, j, w) /\ \E q \in Tasks \ {p} : Running(q)
    THEN crashed' \in {crashed, TRUE}
    ELSE crashed' = crashed

\* One pass of `for _, m := range docs.([]map[string]interface{})`, or the
\* end of the loop.
MapStep(p) ==
    /\ dpc[p] = "maps"
    /\ IF di[p] = Len(coll.items)
       THEN /\ dpc' = [dpc EXCEPT ![p] = "update"]
            /\ UNCHANGED <<heap, di, payload, dres, acc, crashed>>
       ELSE LET j == coll.items[di[p] + 1]
                err == MapErr(heap[j])
            IN IF err # "nil"
               THEN /\ dpc' = [dpc EXCEPT ![p] = "done"]
                    /\ dres' = [dres EXCEPT ![p] = Failure(dcall[p], err)]
                    /\ acc' = [acc EXCEPT ![p].r = @ \cup {j}]
                    /\ RaceOutcome(p, {j}, FALSE)
                    /\ UNCHANGED <<heap, di, payload>>
               ELSE /\ heap' = [heap EXCEPT ![j] = MarkDeleted(@)]
                    /\ payload' = [payload EXCEPT ![p] = Append(@, j)]
                    /\ di' = [di EXCEPT ![p] = @ + 1]
                    /\ acc' = [acc EXCEPT ![p].r = @ \cup {j},
                                          ![p].w = @ \cup {j}]
                    /\ RaceOutcome(p, {j}, TRUE)
                    /\ UNCHANGED <<dpc, dres>>
    /\ UNCHANGED <<coll, dcall, dprev, feedVars>>

\* One pass of `for _, tempDoc := range docs.([]interface{})`, or the end
\* of the loop.
DocStep(p) ==
    /\ dpc[p] = "docs"
    /\ IF di[p] = Len(coll.items)
       THEN /\ dpc' = [dpc EXCEPT ![p] = "update"]
            /\ UNCHANGED <<di, payload, dres, crashed>>
       ELSE LET r == ShapeDoc(coll.items[di[p] + 1])
                rc == Recover(dcall[p])
            IN IF r.panic
               THEN /\ dpc' = [dpc EXCEPT ![p] = "done"]
                    /\ dres' = [dres EXCEPT ![p] = rc.res]
                    /\ crashed' = (crashed \/ rc.crashed)
                    /\ UNCHANGED <<di, payload>>
               ELSE IF r.err # "nil"
               THEN /\ dpc' = [dpc EXCEPT ![p] = "done"]
                    /\ dres' = [dres EXCEPT ![p] = Failure(dcall[p], r.err)]
                    /\ UNCHANGED <<di, payload, crashed>>
               ELSE /\ payload' = [payload EXCEPT ![p] = Append(@, r.rec)]
                    /\ di' = [di EXCEPT ![p] = @ + 1]
                    /\ UNCHANGED <<dpc, dres, crashed>>
    /\ UNCHANGED <<coll, heap, dcall, dprev, acc, feedVars>>

\* The records json.Marshal writes for the payload: a payload of the
\* caller's maps holds the maps themselves, read when it is marshalled.
Marshalled(p) ==
    IF coll.elem = "map"
    THEN [i \in DOMAIN payload[p] |-> heap[payload[p][i]]]
    ELSE payload[p]

\* The maps a payload refers to.
PayloadMaps(p) ==
    IF coll.elem = "map"
    THEN {payload[p][i] : i \in DOMAIN payload[p]}
    ELSE {}

\* result, err = db.Update(payload, atomic, updateRev, fullCommit).
UpdateStep(p) ==
    /\ dpc[p] = "update"
    /\ \E outcome \in Outcomes :
           dres' = [dres EXCEPT ![p] =
                       [Update(Marshalled(p), dcall[p].atomic, TRUE, TRUE,
                               outcome) EXCEPT !.op = dcall[p].op]]
    /\ dpc' = [dpc EXCEPT ![p] = "done"]
    /\ acc' = [acc EXCEPT ![p].r = @ \cup PayloadMaps(p)]
    /\ RaceOutcome(p, PayloadMaps(p), FALSE)
    /\ UNCHANGED <<coll, heap, dcall, di, payload, dprev, feedVars>>

\* One handle, one task: calls in a row on one collection.
InitDelete ==
    /\ InitBase
    /\ DeleteIdle
    /\ SecIdle
    /\ Holds(Elems)

NextDelete ==
    \/ DeleteMany(1)
    \/ MustDeleteMany(1)
    \/ DeleteAgain(1)
    \/ MapStep(1)
    \/ DocStep(1)
    \/ UpdateStep(1)

SpecDelete == InitDelete /\ [][NextDelete]_vars

\* One handle, two tasks: each calls once, on the one collection.
SharedElems == {Struct(<<F_id, F_rev>>), Struct(<<F_rev>>), Scalar}

InitShared ==
    /\ InitBase
    /\ DeleteIdle
    /\ SecIdle
    /\ Holds(SharedElems)

NextShared ==
    \E p \in Tasks :
        \/ DeleteMany(p)
        \/ MustDeleteMany(p)
        \/ MapStep(p)
        \/ DocStep(p)
        \/ UpdateStep(p)

SpecShared == InitShared /\ [][NextShared]_vars

\* ---------------------------------------------------------------------
\* Claims about the bulk deletes
\* ---------------------------------------------------------------------

\* docs is a []map[string]interface{} / a []interface{}.
IsMaps == coll.kind = "slice" /\ coll.elem = "map" /\ coll.val = "interface"
IsDocs == coll.kind = "slice" /\ coll.elem = "interface"

\* The map has both keys.
HasBoth(m) == {"_id", "_rev"} \subseteq DOMAIN m

\* The records a call has built: the payload handed to Update, or the docs
\* of the body it sent.
Built(p) == IF dpc[p] = "update" THEN Marshalled(p) ELSE dres[p].body["docs"]
HasBuilt(p) == dpc[p] = "update" \/ dres[p].reqs = 1

\* C11: for a sequence of maps that each hold _id and _rev, the call builds
\* one record per map, in input order, each with _deleted = true and the
\* map's own _id and _rev; and it does build them (the call sends them).
C11_MapsShaped ==
    IsMaps /\ (\A j \in DOMAIN heap : HasBoth(heap[j])) =>
        \A p \in Tasks :
            /\ dres[p].called => dres[p].reqs = 1
            /\ HasBuilt(p) =>
                   /\ Len(Built(p)) = Len(coll.items)
                   /\ \A i \in DOMAIN Built(p) :
                          /\ {"_id", "_rev", "_deleted"} \subseteq DOMAIN Built(p)[i]
                          /\ Built(p)[i]["_deleted"] = TRUE
                          /\ Built(p)[i]["_id"] = <<"id", coll.items[i]>>
                          /\ Built(p)[i]["_rev"] = <<"rev", coll.items[i]>>

\* C11 witness: the caller's first call sent the records of two maps.
C11_Witness ==
    /\ IsMaps /\ Len(coll.items) = 2
    /\ dres[1].reqs = 1 /\ dres[1].err = "nil"
    /\ ~dprev[1].called

\* The first element of a slice of maps that lacks a key, or 0.
FirstLacking ==
    IF \E i \in DOMAIN coll.items : ~HasBoth(heap[coll.items[i]])
    THEN CHOOSE i \in DOMAIN coll.items :
             /\ ~HasBoth(heap[coll.items[i]])
             /\ \A k \in 1..(i - 1) : HasBoth(heap[coll.items[k]])
    ELSE 0

\* What the struct loop can locate in an element.
HasIDField(e) == \E k \in DOMAIN e.fields : e.fields[k].tag = <<"_id">>
HasRevField(e) == \E k \in DOMAIN e.fields : Contains(e.fields[k].tag, "_rev")
\* A type failure: no struct, or a located field that is no string.
TypeFails(e) ==
    \/ ~e.isStruct
    \/ \E k \in DOMAIN e.fields :
           /\ ~e.fields[k].str
           /\ e.fields[k].tag = <<"_id">> \/ Contains(e.fields[k].tag, "_rev")
Shapeable(e) == ~TypeFails(e) /\ HasIDField(e) /\ HasRevField(e)

\* The first element of a []interface{} that cannot be shaped, or 0.
FirstUnshapeable ==
    IF \E i \in DOMAIN coll.items : ~Shapeable(coll.items[i])
    THEN CHOOSE i \in DOMAIN coll.items :
             /\ ~Shapeable(coll.items[i])
             /\ \A k \in 1..(i - 1) : Shapeable(coll.items[k])
    ELSE 0

\* C12: when some map lacks _id or _rev, the call fails with the "_id"
\* error if the first such map lacks _id and with the "_rev" error
\* otherwise; likewise for the first struct whose _id or _rev field cannot
\* be located.
C12_ErrorNamesAbsentKey ==
    \A p \in Tasks : dres[p].called =>
        /\ IsMaps /\ FirstLacking # 0 =>
               dres[p].err =
                   IF "_id" \notin DOMAIN heap[coll.items[FirstLacking]]
                   THEN ErrMapNoID ELSE ErrMapNoRev
        /\ IsDocs /\ FirstUnshapeable # 0
                  /\ ~TypeFails(coll.items[FirstUnshapeable]) =>
               dres[p].err =
                   IF ~HasIDField(coll.items[FirstUnshapeable])
                   THEN ErrDocNoID ELSE ErrDocNoRev

\* C12 witness: the second map is the first to lack a key, and it lacks
\* both; the call has failed.
C12_Witness ==
    /\ IsMaps /\ FirstLacking = 2
    /\ DOMAIN heap[2] \cap {"_id", "_rev"} = {}
    /\ dres[1].called /\ dres[1].err = ErrMapNoID

\* The input passes every check of the loop.
Valid ==
    \/ IsMaps /\ FirstLacking = 0
    \/ IsDocs /\ FirstUnshapeable = 0

ValidationErrors ==
    {ErrInvalid, ErrMapNoID, ErrMapNoRev, ErrDocNoID, ErrDocNoRev,
     ErrUnsupported, ErrNotSlice}

\* C13: a call either finds the whole collection valid and then sends
\* exactly one request, with a record for every element, or it returns a
\* validation error and has sent nothing; nothing is sent while the
\* collection is still being validated.
C13_ValidateThenSubmit ==
    \A p \in Tasks :
        /\ dpc[p] \in {"maps", "docs", "update"} => dres[p].reqs = 0
        /\ dres[p].called =>
               \/ /\ Valid
                  /\ dres[p].reqs = 1 /\ dres[p].req.sent
                  /\ dres[p].err \notin ValidationErrors
                  /\ Len(dres[p].body["docs"]) = Len(coll.items)
               \/ /\ ~Valid
                  /\ dres[p].reqs = 0 /\ ~dres[p].req.sent
                  /\ DOMAIN dres[p].body = {}
                  /\ dres[p].err \in ValidationErrors
                  /\ dres[p].result = "nil"

\* C13 witness: the second element failed validation after the first had
\* been shaped; the call returned its error.
C13_Witness ==
    /\ IsDocs /\ FirstUnshapeable = 2
    /\ dres[1].called /\ dres[1].err \in ValidationErrors
    /\ Len(payload[1]) = 1

\* The fields of an element, whatever their order.
FieldSet(e) == {e.fields[k] : k \in DOMAIN e.fields}

\* The identity field is the one tagged "_id"; the revision field is the
\* one whose tag names "_rev", alone or before its options.
IDFields(e) == {f \in FieldSet(e) : f.tag = <<"_id">>}
RevFields(e) == {f \in FieldSet(e) : f.tag[1] = "_rev"}

\* C14: a struct with a string field tagged "_id" and a string revision
\* field whose tag contains "_rev" is shaped to {_id, _rev, _deleted: true}
\* from the values of these two fields, whatever the order of its fields:
\* two elements with the same fields give the same record.
C14_StructShaped ==
    \A p \in Tasks : IsDocs /\ dres[p].reqs = 1 =>
        LET docs == dres[p].body["docs"]
        IN /\ \A i \in DOMAIN docs :
                  LET e == coll.items[i]
                  IN /\ docs[i]["_deleted"] = TRUE
                     /\ \E f \in IDFields(e) : docs[i]["_id"] = f.val
                     /\ RevFields(e) # {} =>
                            \E f \in RevFields(e) : docs[i]["_rev"] = f.val
           /\ \A i, k \in DOMAIN docs :
                  FieldSet(coll.items[i]) = FieldSet(coll.items[k]) =>
                      docs[i] = docs[k]

\* docs makes a low-level operation of bulkDelete fail: docs is nil, or a
\* slice of maps of another value type, or a []interface{} whose first
\* element that cannot be shaped is no struct or has a located field that
\* is no string.
TypeFailure ==
    \/ coll.kind = "nil"
    \/ coll.kind = "slice" /\ coll.elem = "map" /\ coll.val # "interface"
    \/ IsDocs /\ FirstUnshapeable # 0 /\ TypeFails(coll.items[FirstUnshapeable])

NoDocuments ==
    \/ coll.kind = "slice" /\ coll.elem \in {"int", "slice"}
    \/ IsDocs /\ coll.items # <<>>
              /\ \A i \in DOMAIN coll.items : ~coll.items[i].isStruct

\* C16: an argument that is no slice at all gets the "accepts only slices"
\* error, and a slice whose elements are neither maps nor structs gets the
\* "Unsupported document type" error.
C16_DistinctErrors ==
    \A p \in Tasks : dres[p].called =>
        /\ coll.kind # "slice" => dres[p].err = ErrNotSlice
        /\ NoDocuments => dres[p].err = ErrUnsupported

\* C17 as stated: the request carries new_edits = false, and
\* all_or_nothing = true exactly when the call is MustDeleteMany.
C17_NewEditsFalse ==
    \A p \in Tasks : dres[p].reqs = 1 =>
        /\ "new_edits" \in DOMAIN dres[p].body
        /\ dres[p].body["new_edits"] = FALSE
        /\ "all_or_nothing" \in DOMAIN dres[p].body
               <=> dres[p].op = "MustDeleteMany"

\* C17 amended: the request carries no new_edits at all (the server's
\* default applies), asks for a full commit, and carries
\* all_or_nothing = true exactly when the call is MustDeleteMany.
C17_AtomicFlagOnly ==
    \A p \in Tasks : dres[p].reqs = 1 =>
        /\ "new_edits" \notin DOMAIN dres[p].body
        /\ dres[p].headers["X-Couch-Full-Commit"] = "true"
        /\ "all_or_nothing" \in DOMAIN dres[p].body
               <=> dres[p].op = "MustDeleteMany"
        /\ "all_or_nothing" \in DOMAIN dres[p].body
               => dres[p].body["all_or_nothing"] = TRUE

\* C17 witness: a DeleteMany and a MustDeleteMany have each sent their
\* request.
C17_Witness ==
    /\ dprev[1].reqs = 1 /\ dprev[1].op = "DeleteMany"
    /\ dres[1].reqs = 1 /\ dres[1].op = "MustDeleteMany"

\* C18: the second of two calls in a row on one valid collection sends the
\* same records as the first, and passes validation like the first.
C18_SecondCallSame ==
    \A p \in Tasks : dprev[p].reqs = 1 =>
        /\ dres[p].called => dres[p].reqs = 1
        /\ dres[p].reqs = 1 =>
               dres[p].body["docs"] = dprev[p].body["docs"]

\* C18 witness: DeleteMany was called twice on two maps and both calls sent
\* their records.
C18_Witness ==
    /\ IsMaps /\ Len(coll.items) = 2
    /\ dprev[1].reqs = 1 /\ dprev[1].op = "DeleteMany"
    /\ dres[1].reqs = 1 /\ dres[1].op = "DeleteMany"

\* C19: while the calls of two tasks are both under way, neither has
\* written a map that the other has read or written, and the program goes
\* on.
C19_NoSharedWrites ==
    /\ ~crashed
    /\ \A p, q \in Tasks :
           p # q /\ Running(p) /\ Running(q) =>
               acc[p].w \cap (acc[q].r \cup acc[q].w) = {}

\* ---------------------------------------------------------------------
\* Blocking calls: GetDatabase, Exists, GetLog, GetMembership, Info
\* ---------------------------------------------------------------------

\* The statuses >= 400 a server answers with, and the one below.
StatusCodes == {400, 404, 500}
StatusOK == 200

\* The *http.Response processResponse returns beside the error: nil when
\* client.Do failed, otherwise the response with its status.
NoResponse == [nil |-> TRUE, status |-> 0]
Response(req, outcome, code) ==
    IF ~req.sent \/ outcome = "neterr" THEN NoResponse
    ELSE [nil |-> FALSE,
          status |-> IF outcome = "ok" THEN StatusOK ELSE code]

\* The dynamic type of the error of request: the transport's own error, or
\* what parseError makes of a status >= 400: an *Error, unless the body of
\* a non-HEAD response does not parse.
ErrorType(req, outcome, good) ==
    IF req.err = "nil" THEN "nil"
    ELSE IF ~req.sent \/ outcome = "neterr" THEN "net"
    ELSE IF req.method = "HEAD" \/ good THEN "*Error"
    ELSE "errorString"

\* What a call did: returned err and a result, or panicked.
Return(err, result) == [panic |-> FALSE, err |-> err, result |-> result]
Panic == [panic |-> TRUE, err |-> "nil", result |-> "nil"]

\* The record of a blocking call.
Blocking(op, opts, req, resp, out) ==
    [op |-> op, opts |-> opts, after |-> opts, err |-> out.err, req |-> req,
     resp |-> resp, returned |-> ~out.panic, result |-> out.result]

\* parseBody(resp, &out) on a response still unread.
parseBody(good) == IF good THEN "nil" ELSE "decode"

\* Server.GetDatabase(name, auth).
GetDatabaseCall(name, auth, outcome, code) ==
    LET useAuth == IF auth # "nil" THEN auth ELSE srv.auth
        req == request(srv.conn, "HEAD", queryURL(<<<<name>>>>), useAuth,
                       outcome)
        resp == Response(req, outcome, code)
    IN Blocking("GetDatabase", [name |-> name, auth |-> auth], req, resp,
           IF req.err # "nil"
           THEN IF resp.nil THEN Panic
                ELSE IF resp.status = 404 THEN Return("Not Found", "nil")
                ELSE Return(req.err, "nil")
           ELSE Return("nil", [conn |-> srv.conn, auth |-> auth,
                               Name |-> name]))

\* fmt.Sprintf("%s=%v&", k, v), and the loop of Exists over its options.
FmtKVAmp(k, v) == <<k, "=", v, "&">>
RECURSIVE ExistsQuery(_, _)
ExistsQuery(options, ord) ==
    IF ord = <<>> THEN <<>>
    ELSE FmtKVAmp(Head(ord), options[Head(ord)])
         \o ExistsQuery(options, Tail(ord))

\* Database.Exists(id, options): `defer resp.Body.Close()` comes before the
\* error is looked at.
ExistsCall(id, options, ord, outcome, code, good) ==
    LET URL == IF Cardinality(DOMAIN options) > 0
               THEN queryURL(<<<<db.Name>>, <<id>>>>) \o <<"?">>
                        \o Trim(ExistsQuery(options, ord), "&")
               ELSE queryURL(<<<<db.Name>>, <<id>>>>)
        req == request(db.conn, "HEAD", URL, db.auth, outcome)
        resp == Response(req, outcome, code)
    IN Blocking("Exists", options, req, resp,
           IF resp.nil THEN Panic
           ELSE IF req.err # "nil"
           THEN IF resp.status = 404
                THEN Return("document not found", "nil")
                ELSE Return(req.err, "nil")
           ELSE IF ~good THEN Return("atoi", "nil")
           ELSE Return("nil", "size, rev"))

\* fmt.Sprintf("%d", size) for the sizes asked for.
Itoa(n) == <<"0", "1", "2", "3", "4", "5", "6", "7", "8", "9">>[n + 1]
LogSizes == {0, 5}

\* Server.GetLog(size): `defer resp.Body.Close()` comes before the error is
\* looked at.
GetLogCall(size, outcome, code, good) ==
    LET URL == IF size > 0
               THEN <<"/", "_log", "?", "bytes", "=", Itoa(size)>>
               ELSE <<"/", "_log">>
        req == request(srv.conn, "GET", URL, srv.auth, outcome)
        resp == Response(req, outcome, code)
    IN Blocking("GetLog", <<>>, req, resp,
           IF resp.nil THEN Panic
           ELSE IF req.err # "nil" THEN Return(req.err, "nil")
           ELSE IF ~good THEN Return("read", "nil")
           ELSE Return("nil", "buffer"))

\* Server.GetMembership(o): an *Error with another status than 400 leaves
\* the switch, and parseBody reads the body parseError has read and closed.
GetMembershipCall(outcome, code, good) ==
    LET req == request(srv.conn, "GET", <<"/", "_membership">>, srv.auth,
                       outcome)
        resp == Response(req, outcome, code)
        type == ErrorType(req, outcome, good)
    IN Blocking("GetMembership", <<>>, req, resp,
           IF req.err # "nil"
           THEN IF type = "*Error"
                THEN IF resp.status = 400
                     THEN Return("Not supported by server", "nil")
                     ELSE Return("decode", "nil")
                ELSE Return(req.err, "nil")
           ELSE Return(parseBody(good), "o"))

\* Server.Info() and Database.Info().
InfoCall(h, outcome, code, good) ==
    LET req == IF h = "Server"
               THEN request(srv.conn, "GET", <<"/">>, srv.auth, outcome)
               ELSE request(db.conn, "GET", queryURL(<<<<db.Name>>>>),
                            db.auth, outcome)
        resp == Response(req, outcome, code)
    IN Blocking(h, <<>>, req, resp,
           IF req.err # "nil" THEN Return(req.err, "nil")
           ELSE IF parseBody(good) # "nil"
           THEN Return(parseBody(good), "nil")
           ELSE Return("nil", "info"))

\* The names, auths, ids and options the callers pass.
DBNames == {"db", "other"}
Auths == {"nil", "userAuth"}
DocIDs == {"doc"}
ExistsOptions == {o \in OptionsOver({"since", "limit"}) : WellTyped(o)}

\* A blocking call runs to its return, or its panic takes the program
\* down: none of these calls recovers.
Blocks(rec) ==
    /\ ~crashed
    /\ last' = rec
    /\ crashed' = ~rec.returned
    /\ UNCHANGED <<baseTimeout, clients, call, pc, chan, wire, rd, cur, recv,
                   closes, rderr, why, delVars, secVars>>

GetDatabase(name, auth) ==
    \E outcome \in Outcomes, code \in StatusCodes :
        Blocks(GetDatabaseCall(name, auth, outcome, code))

Exists(id, options) ==
    \E outcome \in Outcomes, code \in StatusCodes, good \in BOOLEAN :
        \E ord \in Orders(DOMAIN options) :
            Blocks(ExistsCall(id, options, ord, outcome, code, good))

GetLog(size) ==
    \E outcome \in Outcomes, code \in StatusCodes, good \in BOOLEAN :
        Blocks(GetLogCall(size, outcome, code, good))

GetMembership ==
    \E outcome \in Outcomes, code \in StatusCodes, good \in BOOLEAN :
        Blocks(GetMembershipCall(outcome, code, good))

Info(h) ==
    \E outcome \in Outcomes, code \in StatusCodes, good \in BOOLEAN :
        Blocks(InfoCall(h, outcome, code, good))

NextBlocking ==
    \/ \E name \in DBNames, auth \in Auths : GetDatabase(name, auth)
    \/ \E id \in DocIDs, o \in ExistsOptions : Exists(id, o)
    \/ \E size \in LogSizes : GetLog(size)
    \/ GetMembership
    \/ \E h \in {"Server", "Database"} : Info(h)

SpecBlocking == Init /\ [][NextBlocking]_vars

\* A transport failure: the request got no response, or one with a
\* status >= 400.
TransportFailed(c) == c.resp.nil \/ c.resp.status >= 400

BlockingOps ==
    {"GetDatabase", "Exists", "GetLog", "GetMembership", "Server", "Database"}

\* C20: a blocking call whose request fails in transport returns a
\* non-nil error, and the program goes on; a call whose response has a
\* status below 400 does not return the transport's error.
C20_TransportErrorSurfaced ==
    /\ ~crashed
    /\ last.op \in BlockingOps =>
           /\ TransportFailed(last) => last.returned /\ last.err # "nil"
           /\ ~TransportFailed(last) => last.err # "transport"

\* ---------------------------------------------------------------------
\* Database handles: GetDatabase, MustGetDatabase, CreateDB
\* ---------------------------------------------------------------------

\* Server.CreateDB(name).
CreateDBCall(name, outcome) ==
    LET req == request(srv.conn, "PUT", queryURL(<<<<name>>>>), srv.auth,
                       outcome)
    IN [req |-> req,
        out |-> IF req.err # "nil" THEN Return(req.err, "nil")
                ELSE Return("nil", [conn |-> srv.conn, auth |-> srv.auth,
                                    Name |-> name])]

\* Server.MustGetDatabase(name, auth): GetDatabase, and CreateDB when that
\* returned "Not Found".
MustGetDatabaseCall(name, auth, outcome, code, outcome2) ==
    LET g == GetDatabaseCall(name, auth, outcome, code)
        c == CreateDBCall(name, outcome2)
        create == g.returned /\ g.err = "Not Found"
    IN [op |-> "MustGetDatabase", opts |-> g.opts, after |-> g.after,
        err |-> IF create THEN c.out.err ELSE g.err,
        req |-> g.req, resp |-> g.resp, returned |-> g.returned,
        result |-> IF create THEN c.out.result ELSE g.result,
        create |-> IF create THEN c.req ELSE NoReq]

\* A later request through the handle h, here Database.Info().
HandleInfoCall(got, outcome, code, good) ==
    LET h == got.result
        req == request(h.conn, "GET", queryURL(<<<<h.Name>>>>), h.auth,
                       outcome)
        resp == Response(req, outcome, code)
    IN [op |-> "Handle.Info", opts |-> got.opts, after |-> got.after,
        err |-> IF req.err # "nil" THEN req.err ELSE parseBody(good),
        req |-> req, resp |-> resp, returned |-> TRUE,
        result |-> IF req.err = "nil" /\ good THEN "info" ELSE "nil",
        handle |-> h, from |-> got.op]

MustGetDatabase(name, auth) ==
    \E outcome, outcome2 \in Outcomes, code \in StatusCodes :
        Blocks(MustGetDatabaseCall(name, auth, outcome, code, outcome2))

\* The caller uses the handle the last call gave it.
HandleInfo ==
    /\ last.op \in {"GetDatabase", "MustGetDatabase"}
    /\ last.returned /\ last.err = "nil"
    /\ \E outcome \in Outcomes, code \in StatusCodes, good \in BOOLEAN :
           Blocks(HandleInfoCall(last, outcome, code, good))

NextHandle ==
    \/ \E name \in DBNames, auth \in Auths : GetDatabase(name, auth)
    \/ \E name \in DBNames, auth \in Auths : MustGetDatabase(name, auth)
    \/ HandleInfo

SpecHandle == Init /\ [][NextHandle]_vars

\* The Auth a handle asked for with `passed` is to use.
ChosenAuth(passed) == IF passed # "nil" THEN passed ELSE srv.auth

\* C21: the existence check, the creation and the handle returned by
\* GetDatabase / MustGetDatabase, and every later request through that
\* handle, use the Auth passed when it is non-nil and the Auth of Connect
\* when nil was passed.
C21_HandleAuth ==
    /\ last.op \in {"GetDatabase", "MustGetDatabase"} =>
           /\ last.req.sent => last.req.auth = ChosenAuth(last.opts.auth)
           /\ last.returned /\ last.err = "nil" =>
                  last.result.auth = ChosenAuth(last.opts.auth)
    /\ last.op = "MustGetDatabase" /\ last.create.sent =>
           last.create.auth = ChosenAuth(last.opts.auth)
    /\ last.op = "Handle.Info" /\ last.req.sent =>
           last.req.auth = ChosenAuth(last.opts.auth)

\* ---------------------------------------------------------------------
\* Security objects: UpdateAdmins, UpdateMembers, UpdateAdminRoles,
\* UpdateMemberRoles
\* ---------------------------------------------------------------------

\* The logins and roles callers pass, and the longest list an add is tried
\* on.
Values == {"x", "y"}
MaxNames == 3

\* The errors of the four functions, as their words.
ErrLoginExists == <<"Login", "already", "exists">>
ErrRoleExists == <<"Role", "already", "exists">>

\* The index of the first entry of list equal to x, or 0: the entry at
\* which `for i, name := range list` meets `name == login`.
FirstAt(list, x) == IndexOf(list, x, 1)

\* append(list[:i], list[i+1:]...)
RemoveAt(list, i) == SubSeq(list, 1, i - 1) \o SubSeq(list, i + 1, Len(list))

\* The body the four functions share, on the list they are about: the list
\* afterwards and the error returned.
UpdateListAppendAlways(list, x, delete, exists) ==
    [list |-> Append(list, x), err |-> NoError]
UpdateListDeleteAll(list, x, delete, exists) ==
    LET i == FirstAt(list, x) IN
    IF i # 0
    THEN IF delete THEN [list |-> <<>>, err |-> NoError]
         ELSE [list |-> list, err |-> exists]
    ELSE [list |-> Append(list, x), err |-> NoError]
UpdateList(list, x, delete, exists) ==
    LET i == FirstAt(list, x) IN
    IF i # 0
    THEN IF delete THEN [list |-> RemoveAt(list, i), err |-> NoError]
         ELSE [list |-> list, err |-> exists]
    ELSE [list |-> Append(list, x), err |-> NoError]

\* One of the four functions applied to the object bs.
UpdateIn(bs, l, x, delete, exists) ==
    LET u == UpdateList(bs[l], x, delete, exists) IN
    [bs |-> [bs EXCEPT ![l] = u.list], err |-> u.err]

UpdateAdmins(bs, login, delete) ==
    UpdateIn(bs, "Admins.Names", login, delete, ErrLoginExists)
UpdateMembers(bs, login, delete) ==
    UpdateIn(bs, "Members.Names", login, delete, ErrLoginExists)
UpdateAdminRoles(bs, role, delete) ==
    UpdateIn(bs, "Admins.Roles", role, delete, ErrRoleExists)
UpdateMemberRoles(bs, role, delete) ==
    UpdateIn(bs, "Members.Roles", role, delete, ErrRoleExists)

\* The function that is about the list l.
UpdateOf(bs, l, x, delete) ==
    CASE l = "Admins.Names" -> UpdateAdmins(bs, x, delete)
      [] l = "Members.Names" -> UpdateMembers(bs, x, delete)
      [] l = "Admins.Roles" -> UpdateAdminRoles(bs, x, delete)
      [] l = "Members.Roles" -> UpdateMemberRoles(bs, x, delete)

\* A task calls one of the four functions on its object.
UpdateCall(p, l, x, delete) ==
    /\ Len(sec[p][l]) < MaxNames
    /\ LET u == UpdateOf(sec[p], l, x, delete) IN
          /\ sec' = [sec EXCEPT ![p] = u.bs]
          /\ sop' = [sop EXCEPT ![p] =
                        [NoSecOp EXCEPT !.op = "Update", !.list = l, !.x = x,
                                        !.delete = delete, !.err = u.err,
                                        !.before = sec[p]]]
    /\ UNCHANGED <<stored, spc, baseTimeout, clients, call, last, pc, chan, wire, rd,
                   cur, recv, closes, rderr, why, crashed, delVars>>

\* The lists without a duplicate over the values.
NoDup(list) ==
    \A i, k \in DOMAIN list : i # k => list[i] # list[k]
CleanLists == {l \in SeqsUpTo(Values, Cardinality(Values)) : NoDup(l)}

\* A security object with no duplicate in its lists, and calls on it.
InitSecurity ==
    /\ InitBase
    /\ DeleteIdle
    /\ coll = NoColl
    /\ heap = <<>>
    /\ stored = NoSecurity
    /\ sec \in [Tasks -> [Lists -> CleanLists]]
    /\ sec[2] = NoSecurity
    /\ spc = [p \in Tasks |-> "idle"]
    /\ sop = [p \in Tasks |-> NoSecOp]

NextSecurity ==
    \E l \in Lists, x \in Values, delete \in BOOLEAN :
        UpdateCall(1, l, x, delete)

SpecSecurity == InitSecurity /\ [][NextSecurity]_vars

\* x is an entry of list.
InList(list, x) == \E i \in DOMAIN list : list[i] = x

\* list without its entries equal to x, the others in their order.
RECURSIVE Without(_, _)
Without(list, x) ==
    IF list = <<>> THEN <<>>
    ELSE IF Head(list) = x THEN Without(Tail(list), x)
    ELSE <<Head(list)>> \o Without(Tail(list), x)

\* The lists of bs other than l are those of before.
OthersSame(bs, before, l) == \A m \in Lists \ {l} : bs[m] = before[m]

\* C22: adding a value that is not in the list appends it, with no error;
\* adding a value that is in the list returns an error with the word
\* "exists" and changes nothing; deleting a value that is in the list
\* removes it, with no error, and leaves the other entries and the other
\* lists as they were.
C22_UpdateAddsAndDeletes ==
    \A p \in Tasks : sop[p].op = "Update" =>
        LET o == sop[p]
            b == o.before[o.list]
            a == sec[p][o.list]
        IN /\ ~o.delete /\ ~InList(b, o.x) =>
                  /\ a = Append(b, o.x) /\ o.err = NoError
                  /\ OthersSame(sec[p], o.before, o.list)
           /\ ~o.delete /\ InList(b, o.x) =>
                  /\ Contains(o.err, "exists")
                  /\ sec[p] = o.before
           /\ o.delete /\ InList(b, o.x) =>
                  /\ a = Without(b, o.x) /\ o.err = NoError
                  /\ Len(a) = Len(b) - 1
                  /\ OthersSame(sec[p], o.before, o.list)

\* C22 witness: the first of two member roles was deleted.
C22_Witness ==
    /\ sop[1].op = "Update" /\ sop[1].delete
    /\ sop[1].list = "Members.Roles"
    /\ Len(sop[1].before["Members.Roles"]) = 2
    /\ sop[1].before["Members.Roles"][1] = sop[1].x
    /\ Len(sec[1]["Members.Roles"]) = 1

\* C28: after a call with delete = true for x, x is not in the list,
\* whether or not it was there before.
C28_DeleteNeverAdds ==
    \A p \in Tasks : sop[p].op = "Update" /\ sop[p].delete =>
        ~InList(sec[p][sop[p].list], sop[p].x)

\* C29: no list of a security object holds a value twice.
C29_NoDuplicates ==
    \A p \in Tasks : \A l \in Lists : NoDup(sec[p][l])

\* C29 witness: a call grew a list to two entries.
C29_Witness ==
    /\ sop[1].op = "Update"
    /\ Len(sop[1].before[sop[1].list]) = 1
    /\ Len(sec[1][sop[1].list]) = 2

\* A struct declared as the README declares its documents: a string field
\* tagged "_id,omitempty" and a string field tagged "_rev,omitempty".
ReadmeDoc(e) ==
    /\ e.isStruct
    /\ \E k \in DOMAIN e.fields :
           e.fields[k].str /\ e.fields[k].tag = <<"_id", ",", "omitempty">>
    /\ \E k \in DOMAIN e.fields :
           e.fields[k].str /\ e.fields[k].tag = <<"_rev", ",", "omitempty">>

\* C23: for structs tagged as in the README the call locates both fields:
\* it does not fail with the "miss _id field or tag" error, and it sends
\* its request.
C23_ReadmeStructAccepted ==
    \A p \in Tasks :
        /\ IsDocs /\ coll.items # <<>>
        /\ \A i \in DOMAIN coll.items : ReadmeDoc(coll.items[i])
        /\ dres[p].called
        => dres[p].err # ErrDocNoID /\ dres[p].reqs = 1

\* A caller's map holds "_deleted": true, which no map holds at the start.
Marked(m) == "_deleted" \in DOMAIN m /\ m["_deleted"] = TRUE

\* C27: when a call on a slice of maps returns a validation error, none of
\* the caller's maps has been given "_deleted": true, the maps before the
\* offending one included.
C27_FailedCallLeavesMaps ==
    \A p \in Tasks :
        IsMaps /\ dres[p].called /\ dres[p].err \in ValidationErrors =>
            \A j \in DOMAIN heap : ~Marked(heap[j])

\* C25: whenever GetChangesChan or GetDBEventChan returns an error, the
\* channel it returns is nil and it has started no task.
C25_ErrorMeansNilChannel ==
    \A s \in Streams :
        /\ call[s].op \in {"GetChangesChan", "GetDBEventChan"}
        /\ call[s].err # "nil"
        => ~call[s].retChan /\ ~call[s].task

\* C26: GetChangesChan and GetAllChanges leave the caller's options map
\* as it was passed.
C26_OptionsUnchanged ==
    /\ \A s \in Streams :
           call[s].op = "GetChangesChan" => call[s].after = call[s].opts
    /\ last.op = "GetAllChanges" => last.after = last.opts

\* C24: the task never closes the channel and never opens a connection
\* again: the channel is closed only in a step that is not the task's, and
\* once the task has stopped on a read or decode failure it stays stopped,
\* the stream keeps the one request and connection it made, and the caller
\* receives nothing more; the channel is closed then only if the caller
\* closes it.
C24_StoppedTaskLeavesChannel ==
    /\ [][\A s \in Streams :
            chan'[s] = "closed" /\ chan[s] # "closed" =>
                pc'[s] = pc[s] /\ closes'[s] = closes[s]]_vars
    /\ [][\A s \in Streams :
            Failed(s) =>
                /\ pc'[s] \in {"panic", "done"}
                /\ call'[s] = call[s]
                /\ recv'[s] = recv[s]
                /\ wire'[s] = wire[s] => rd'[s] = rd[s]]_vars
    /\ [](\A s \in Streams :
            Failed(s) => pc[s] # "send" /\ call[s].req.sent)

\* C24 witness: after one event was received the read failed and the task
\* has stopped; the channel is still open.
C24_Witness ==
    \E s \in Streams :
        /\ pc[s] = "done" /\ why[s] = "read"
        /\ chan[s] = "open" /\ Len(recv[s]) = 1

\* ---------------------------------------------- the stored security object
\* The error of a request that failed, as the caller of Add.../Delete...
\* gets it.
ErrTransport == <<"transport">>

\* parseBody(resp, o) on the stored object: a list the stored object holds
\* replaces the object's list; a list it does not hold (omitempty left the
\* key out) leaves the object's list as it is.
DecodeInto(bs, st) ==
    [l \in Lists |-> IF st[l] # <<>> THEN st[l] ELSE bs[l]]

\* Database.GetSecurity(o): GET <db>/_security, decoded into o.
GetSecurityCall(bs, st, outcome) ==
    LET resp == request(db.conn, "GET",
                        queryURL(<<<<db.Name>>, <<"_security">>>>),
                        db.auth, outcome)
    IN [req |-> resp,
        bs |-> IF resp.err = "nil" THEN DecodeInto(bs, st) ELSE bs,
        err |-> IF resp.err = "nil" THEN NoError ELSE ErrTransport]

\* Database.SetSecurity(o): PUT <db>/_security with the marshalled object;
\* the server then holds it.
SetSecurityCall(bs, st, outcome) ==
    LET resp == request(db.conn, "PUT",
                        queryURL(<<<<db.Name>>, <<"_security">>>>),
                        db.auth, outcome)
    IN [req |-> resp,
        stored |-> IF resp.err = "nil" THEN bs ELSE st,
        err |-> IF resp.err = "nil" THEN NoError ELSE ErrTransport]

\* What the stream and delete variables do in a step on security objects.
SecurityOnly ==
    UNCHANGED <<baseTimeout, clients, call, last, pc, chan, wire, rd, cur,
                recv, closes, rderr, why, crashed, delVars>>

\* A task calls AddAdmin, DeleteAdmin, ... on its DatabaseSecurity object:
\* one call per task.
SecurityCall(p, l, x, delete) ==
    /\ spc[p] = "idle"
    /\ spc' = [spc EXCEPT ![p] = "get"]
    /\ sop' = [sop EXCEPT ![p] =
                  [NoSecOp EXCEPT !.op = IF delete THEN "Delete" ELSE "Add",
                                  !.list = l, !.x = x, !.delete = delete,
                                  !.before = sec[p]]]
    /\ UNCHANGED <<stored, sec>>
    /\ SecurityOnly

\* sec.db.GetSecurity(sec); an error ends the call.
GetSecurity(p) ==
    /\ spc[p] = "get"
    /\ \E outcome \in Outcomes :
          LET g == GetSecurityCall(sec[p], stored, outcome) IN
          /\ sec' = [sec EXCEPT ![p] = g.bs]
          /\ sop' = [sop EXCEPT ![p].req = g.req, ![p].err = g.err,
                                ![p].got = (g.err = NoError)]
          /\ spc' = [spc EXCEPT ![p] =
                        IF g.err = NoError THEN "update" ELSE "done"]
    /\ UNCHANGED stored
    /\ SecurityOnly

\* sec.Update...(x, delete): the error it returns is dropped.
UpdateSecurity(p) ==
    /\ spc[p] = "update"
    /\ sec' = [sec EXCEPT ![p] =
                  UpdateOf(sec[p], sop[p].list, sop[p].x, sop[p].delete).bs]
    /\ spc' = [spc EXCEPT ![p] = "put"]
    /\ UNCHANGED <<stored, sop>>
    /\ SecurityOnly

\* sec.db.SetSecurity(sec), and the call returns.
SetSecurity(p) ==
    /\ spc[p] = "put"
    /\ \E outcome \in Outcomes :
          LET u == SetSecurityCall(sec[p], stored, outcome) IN
          /\ stored' = u.stored
          /\ sop' = [sop EXCEPT ![p].req = u.req, ![p].err = u.err,
                                ![p].put = (u.err = NoError)]
    /\ spc' = [spc EXCEPT ![p] = "done"]
    /\ UNCHANGED sec
    /\ SecurityOnly

\* What the server holds at the start: nothing, an admin, a member role.
StoredAtStart ==
    {NoSecurity,
     [NoSecurity EXCEPT !["Admins.Names"] = <<"x">>],
     [NoSecurity EXCEPT !["Members.Roles"] = <<"y">>]}

\* Two tasks, each with the object GetDatabaseSecurity gave it.
InitStore ==
    /\ InitBase
    /\ DeleteIdle
    /\ coll = NoColl
    /\ heap = <<>>
    /\ stored \in StoredAtStart
    /\ sec = [p \in Tasks |-> NoSecurity]
    /\ spc = [p \in Tasks |-> "idle"]
    /\ sop = [p \in Tasks |-> NoSecOp]

NextStore ==
    \E p \in Tasks :
        \/ \E l \in Lists, x \in Values, delete \in BOOLEAN :
               SecurityCall(p, l, x, delete)
        \/ GetSecurity(p)
        \/ UpdateSecurity(p)
        \/ SetSecurity(p)

SpecStore == InitStore /\ [][NextStore]_vars

\* The call of task p was an add that returned without an error.
Added(p) ==
    /\ spc[p] = "done" /\ sop[p].op = "Add"
    /\ sop[p].put /\ sop[p].err = NoError

\* C30: when two add calls for different values have both returned without
\* an error, the stored object holds both values.
C30_NoLostUpdate ==
    /\ Added(1) /\ Added(2)
    /\ <<sop[1].list, sop[1].x>> # <<sop[2].list, sop[2].x>>
    => /\ InList(stored[sop[1].list], sop[1].x)
       /\ InList(stored[sop[2].list], sop[2].x)

====
